---- MODULE Spec2Model ----
(***************************************************************************)
(* Model of git-subtree-remote (src/git_subtree_remote): the `diff`        *)
(* command's flow validate_subtrees -> rate_limit_find_subtree_remote ->   *)
(* find_subtree_remote per subtree -> print_subtree_diff, one step per     *)
(* outbound request to the hosting API, the `pull` command's loop of git   *)
(* subtree calls after the same resolution, and the RatedSemaphore limiter.*)
(*                                                                         *)
(* Strings are sequences of one-character strings, so that rstrip, split,  *)
(* rsplit, join and basename are computed the way Python computes them.    *)
(***************************************************************************)
EXTENDS Integers, Sequences, FiniteSets, TLC

\* ------------------------------------------------------------------ bounds
MaxLen == 5          \* longest prefix string drawn for name resolution
MaxBatch == 3        \* most prefixes given on one command line
MaxLog == 2          \* most subtree commits in the local history
MaxArgs == 2         \* most prefixes given when the local history varies
MaxItems == 3        \* most same-named items in one search response
MaxPages == 2        \* most pages of the commit listing
MaxPageLen == 2      \* most commits on one page
MaxTags == 2         \* most tags of a repository
MaxCap == 3          \* largest capacity (value) of a limiter under test
MaxDelta == 3        \* largest time_delta of a limiter under test, in time units
MaxLate == 4         \* how far past the period the limiter's clock runs

\* ------------------------------------------------------- string primitives
Chars == {"a", "-", "/"}

Strings(n) == UNION {[1..k -> Chars] : k \in 0..n}

Last(s) == s[Len(s)]

Contains(s, c) == \E i \in 1..Len(s) : s[i] = c

FirstIndex(s, c) == CHOOSE i \in 1..Len(s) : s[i] = c /\ \A j \in 1..(i-1) : s[j] # c

LastIndex(s, c) == CHOOSE i \in 1..Len(s) : s[i] = c /\ \A j \in (i+1)..Len(s) : s[j] # c

IsPrefixOf(p, s) == Len(p) <= Len(s) /\ SubSeq(s, 1, Len(p)) = p

\* str.rstrip(c)
RECURSIVE RStrip(_, _)
RStrip(s, c) ==
    IF s # <<>> /\ Last(s) = c THEN RStrip(SubSeq(s, 1, Len(s) - 1), c) ELSE s

\* str.split(c): every occurrence of c separates two (possibly empty) pieces
RECURSIVE Split(_, _)
Split(s, c) ==
    IF ~Contains(s, c) THEN <<s>>
    ELSE LET i == FirstIndex(s, c)
         IN  <<SubSeq(s, 1, i - 1)>> \o Split(SubSeq(s, i + 1, Len(s)), c)

\* str.rsplit(c, maxsplit): at most maxsplit splits, taken from the right
RECURSIVE RSplit(_, _, _)
RSplit(s, c, maxsplit) ==
    IF maxsplit = 0 \/ ~Contains(s, c) THEN <<s>>
    ELSE LET i == LastIndex(s, c)
         IN  RSplit(SubSeq(s, 1, i - 1), c, maxsplit - 1) \o <<SubSeq(s, i + 1, Len(s))>>

\* c.join(pieces)
RECURSIVE Join(_, _)
Join(pieces, c) ==
    IF pieces = <<>> THEN <<>>
    ELSE IF Len(pieces) = 1 THEN pieces[1]
    ELSE pieces[1] \o <<c>> \o Join(Tail(pieces), c)

\* os.path.join(a, b) for b without a leading separator
OsPathJoin(a, b) ==
    IF a = <<>> \/ Last(a) = "/" THEN a \o b ELSE a \o <<"/">> \o b

\* os.path.basename(p)
Basename(p) == IF Contains(p, "/") THEN SubSeq(p, LastIndex(p, "/") + 1, Len(p)) ELSE p

\* os.path.normpath for a relative path: repeated separators collapse and a
\* trailing separator is dropped (what os.path.relpath leaves of a path given
\* relative to the repository root, the working directory of the command)
RECURSIVE NormPath(_)
NormPath(p) ==
    IF Len(p) >= 2 /\ p[1] = "/" /\ p[2] = "/" THEN NormPath(Tail(p))
    ELSE IF Len(p) >= 2 THEN <<p[1]>> \o NormPath(Tail(p))
    ELSE IF p = <<"/">> THEN <<>>
    ELSE p

\* the order of Python's sorted() on these strings (ASCII)
CharCode(c) == CASE c = "-" -> 45 [] c = "/" -> 47 [] c = "a" -> 97

RECURSIVE StrLess(_, _)
StrLess(s, t) ==
    IF t = <<>> THEN FALSE
    ELSE IF s = <<>> THEN TRUE
    ELSE IF s[1] # t[1] THEN CharCode(s[1]) < CharCode(t[1])
    ELSE StrLess(Tail(s), Tail(t))

RECURSIVE Sorted(_)
Sorted(S) ==
    IF S = {} THEN <<>>
    ELSE LET m == CHOOSE x \in S : \A y \in S \ {x} : StrLess(x, y)
         IN  <<m>> \o Sorted(S \ {m})

Range(s) == {s[i] : i \in 1..Len(s)}

\* ---------------------------------------------------------------- state
VARIABLES
    is_all,           \* the --all flag
    squash,           \* pull's --squash flag
    prefixes,         \* the prefix arguments, in command-line order
    token,            \* whether GITHUB_TOKEN is set
    gitlog,           \* subtree commits of the local history, newest first:
                      \* [dir |-> git-subtree-dir, split |-> git-subtree-split]
    fs,               \* the paths that exist in the working tree
    api,              \* what the hosting API holds: search items, compare
                      \* result, commit pages, tags
    pc,               \* position of the command
    subtrees,         \* validate_subtrees' result
    sem,              \* RatedSemaphore: [made, value, cap]
    acquired,         \* tokens taken from the limiter so far
    idx,              \* index of the subtree being resolved
    remote_repo,      \* find_subtree_remote's remote_repo (<<>> is None)
    kebab_i,          \* repo_for_kebab_name's loop index i
    candidates,       \* repo_for_partial_name's repos_with_name
    commits,          \* repo_commits_since's commits list
    page,             \* next page of the commit listing to fetch
    commits_since,    \* find_subtree_remote's commits_since
    requests,         \* outbound requests of the current resolution, in order
    nrequests,        \* outbound requests issued by the command so far
    prompted,         \* lists shown to the human prompt so far
    subtree_remotes,  \* the list validate_subtree_remotes builds
    error,            \* the exception that ended the command ("" is none)
    output,           \* rows printed by print_subtree_diff, lines echoed by pull
    git_calls,        \* pull's local_repo.git.subtree(...) calls, in order
    pull_i,           \* pull's loop: index of the remote it is at
    now,              \* time since the limiter was constructed
    next_add,         \* when the limiter's timer thread next wakes up
    time_delta,       \* the timer thread's time_delta = period / value
    issued            \* the times at which the limiter's tokens were taken

env == <<is_all, squash, prefixes, token, gitlog, fs, api>>
pulling == <<git_calls, pull_i>>
clock == <<now, next_add, time_delta, issued>>
resolution == <<remote_repo, kebab_i, candidates, commits, page, commits_since>>
vars == <<is_all, squash, prefixes, token, gitlog, fs, api, pc, subtrees, sem,
          acquired, idx, remote_repo, kebab_i, candidates, commits, page,
          commits_since, requests, nrequests, prompted, subtree_remotes, error,
          output, git_calls, pull_i, now, next_add, time_delta, issued>>

\* ------------------------------------------------------------- local.py
None == <<>>      \* a repository (a full name) that is None
NoRef == ""       \* a split reference that is None

Subtree(prefix, ref) == [prefix |-> prefix, last_split_ref |-> ref]

\* Subtree.exists
SubtreeExists(subtree) == subtree.last_split_ref # NoRef

\* os.path.exists(prefix)
PathExists(files, prefix) == NormPath(prefix) \in files

\* git log --grep=<pattern>: the commits whose message holds the pattern,
\* newest first; the pattern 'git-subtree-dir: P' occurs in a message exactly
\* when the recorded directory starts with P
GitLogGrepDir(log, p) == SelectSeq(log, LAMBDA c : IsPrefixOf(p, c.dir))

\* last_split_ref_for_prefix: the first git-subtree-split of the grep's output;
\* re.search gives None on an empty output and .group then raises
LastSplitRefForPrefix(log, prefix) ==
    LET repo_relative_prefix == RStrip(NormPath(prefix), "/")
        subtree_splits == GitLogGrepDir(log, repo_relative_prefix)
    IN  IF subtree_splits = <<>>
        THEN [raises |-> "AttributeError", value |-> NoRef]
        ELSE [raises |-> "", value |-> subtree_splits[1].split]

\* all_subtree_prefixes
AllSubtreePrefixes(log, files) ==
    LET found == {log[i].dir : i \in 1..Len(log)}
        existing_prefixes == {p \in found : PathExists(files, p)}
    IN  Sorted(existing_prefixes)

\* mk_subtree
MkSubtree(log, files, prefix) ==
    IF PathExists(files, prefix)
    THEN LET r == LastSplitRefForPrefix(log, prefix)
         IN  [raises |-> r.raises, value |-> Subtree(prefix, r.value)]
    ELSE [raises |-> "", value |-> Subtree(prefix, NoRef)]

\* (mutation) the empty prefix list is let through
ValidateSubtreesUnchecked(log, files, all, given) ==
    LET chosen == IF all THEN AllSubtreePrefixes(log, files) ELSE given
        made == [i \in 1..Len(chosen) |-> MkSubtree(log, files, chosen[i])]
    IN  IF \E i \in 1..Len(made) : made[i].raises # ""
        THEN [raises |-> "AttributeError", value |-> <<>>]
        ELSE [raises |-> "", value |-> [i \in 1..Len(made) |-> made[i].value]]

\* validate_subtrees: the list comprehension stops at the first prefix whose
\* mk_subtree raises
ValidateSubtrees(log, files, all, given) ==
    LET chosen == IF all THEN AllSubtreePrefixes(log, files) ELSE given
        made == [i \in 1..Len(chosen) |-> MkSubtree(log, files, chosen[i])]
    IN  IF chosen = <<>>
        THEN [raises |-> "ValueError", value |-> <<>>]
        ELSE IF \E i \in 1..Len(made) : made[i].raises # ""
        THEN [raises |-> "AttributeError", value |-> <<>>]
        ELSE [raises |-> "", value |-> [i \in 1..Len(made) |-> made[i].value]]

\* ------------------------------------------------------------ remote.py
\* search_max_per_minute
SearchMaxAuth == 30
SearchMaxAnon == 10
SearchMaxPerMinute(has_token) == IF has_token THEN SearchMaxAuth ELSE SearchMaxAnon

\* the prefix find_subtree_remote works on
StrippedPrefix(subtree) == RStrip(subtree.prefix, "/")

\* split = prefix.rsplit(os.sep, 2)
PrefixSplit(subtree) == RSplit(StrippedPrefix(subtree), "/", 2)

\* len(split) >= 2
HasExactName(subtree) == Len(PrefixSplit(subtree)) >= 2

\* repo_exact_name = os.path.join(*split[-2:])
RepoExactName(subtree) ==
    LET split == PrefixSplit(subtree)
    IN  OsPathJoin(split[Len(split) - 1], split[Len(split)])

\* repo_partial_name = os.path.basename(prefix)
RepoPartialName(subtree) == Basename(StrippedPrefix(subtree))

\* kebabs = repo_partial_name.split('-')
Kebabs(repo_partial_name) == Split(repo_partial_name, "-")

\* repo_for_kebab_name's repo_exact_name at loop index i (0-based, as enumerate)
KebabExactName(repo_partial_name, i) ==
    LET kebabs == Kebabs(repo_partial_name)
    IN  Join(SubSeq(kebabs, 1, i + 1), "-") \o <<"/">>
            \o Join(SubSeq(kebabs, i + 2, Len(kebabs)), "-")

\* the indexes enumerate(kebabs) runs over
KebabCount(repo_partial_name) == Len(Kebabs(repo_partial_name))

\* high_score, high_difference
HighScore == 50
HighDifference == 30

\* (mutation) the margin test admits a difference equal to the threshold
IsConfidentMatchLoose(scores) ==
    scores[1] > HighScore /\ scores[1] - scores[2] >= HighDifference

\* is_confident_match(scores)[0]; scores[1] of a shorter list raises IndexError,
\* which repo_for_partial_name never reaches (it tests len == 1 first)
IsConfidentMatch(scores) ==
    scores[1] > HighScore /\ scores[1] - scores[2] > HighDifference

\* repos_with_name
ReposWithName(items, repo_partial_name) ==
    SelectSeq(items, LAMBDA repo : repo.name = repo_partial_name)

\* repo_for_partial_name after the search response: what it does with the items
PartialNameDecision(items, repo_partial_name) ==
    LET repos_with_name == ReposWithName(items, repo_partial_name)
        scores == [i \in 1..Len(repos_with_name) |-> repos_with_name[i].score]
    IN  IF repos_with_name = <<>> THEN "ValueError"
        ELSE IF Len(repos_with_name) = 1 \/ IsConfidentMatch(scores) THEN "first"
        ELSE "prompt"

FullName(repo) == repo.owner \o <<"/">> \o repo.name

\* -------------------------------------------------------------- diff.py
Shas(cs) == {cs[i].sha : i \in 1..Len(cs)}

\* (mutation) the tags are returned unfiltered
TagsInCommitsAll(tags, cs) == tags

\* tags_in_commits' list comprehension
TagsInCommits(tags, cs) == SelectSeq(tags, LAMBDA tag : tag.sha \in Shas(cs))

RECURSIVE Concat(_)
Concat(ps) == IF ps = <<>> THEN <<>> ELSE ps[1] \o Concat(Tail(ps))

\* SubtreeRemote.is_ahead, SubtreeRemote.is_diverged
IsAhead(remote) == remote.commits_since.ahead_by # 0
IsDiverged(remote) == remote.commits_since.status = "diverged"

\* print_subtree_diff's Ahead By column for one remote
AheadByColumn(remote) ==
    IF ~SubtreeExists(remote.subtree) THEN [label |-> "(new)", n |-> 0]
    ELSE IF IsDiverged(remote) THEN [label |-> "(diverged)", n |-> 0]
    ELSE IF remote.commits_since.ahead_by # 0
         THEN [label |-> "count", n |-> remote.commits_since.ahead_by]
    ELSE [label |-> "(up-to-date)", n |-> 0]

\* print_subtree_diff: the lines it prints, in order
PrintSubtreeDiffRows(remotes) ==
    IF Len(remotes) = 1 /\ ~IsAhead(remotes[1])
    THEN <<[prefix |-> remotes[1].subtree.prefix, repo |-> remotes[1].repo,
            ahead_by |-> [label |-> "already up-to-date", n |-> 0]]>>
    ELSE [i \in 1..Len(remotes) |->
            [prefix |-> remotes[i].subtree.prefix, repo |-> remotes[i].repo,
             ahead_by |-> AheadByColumn(remotes[i])]]

\* ------------------------------------------------------ the command's steps
\* HTTP statuses of a response: success, not found, any other failure
Statuses == {200, 404, 500}

\* an outbound requests.get and the status of its response; kind names the
\* caller: "exact" and "kebab" (both GET /repos/<name>), "search", "compare"
\* (with its base), "commits" (with its page) and "tags"
Request(kind, name, base, n, status) ==
    [kind |-> kind, name |-> name, base |-> base, page |-> n, status |-> status]

Send(req) ==
    /\ requests' = Append(requests, req)
    /\ nrequests' = nrequests + 1

\* (mutation) the exception is swallowed and the command ends normally
RaiseSwallowed(exc) ==
    /\ pc' = "done"
    /\ error' = exc

\* an exception leaves validate_subtree_remotes: the command ends
Raise(exc) ==
    /\ pc' = "failed"
    /\ error' = exc

cur == subtrees[idx]

\* where find_subtree_remote goes once it holds a repository
AfterRepo(subtree) == IF subtree.last_split_ref # NoRef THEN "compare" ELSE "commits"

\* (mutation) the kebab strategy is skipped
AfterExactSkipKebab(subtree) == "fuzzy"

\* where it goes when the exact lookup is skipped or raised KeyError
AfterExact(subtree) ==
    IF Contains(RepoPartialName(subtree), "-") THEN "kebab" ELSE "fuzzy"

\* command.py: subtrees = validate_subtrees(...), ValueError -> BadParameter
ValidateSubtreesStep ==
    /\ pc = "validate"
    /\ LET r == ValidateSubtrees(gitlog, fs, is_all, prefixes)
       IN  IF r.raises = "ValueError" THEN Raise("BadParameter") /\ UNCHANGED subtrees
           ELSE IF r.raises # "" THEN Raise(r.raises) /\ UNCHANGED subtrees
           ELSE /\ subtrees' = r.value
                /\ pc' = "limiter"
                /\ UNCHANGED error
    /\ UNCHANGED <<env, clock, pulling, sem, acquired, idx, resolution, requests, nrequests,
                   prompted, subtree_remotes, output>>

\* command.py: rate_limited_find = rate_limit_find_subtree_remote()
RateLimitFindSubtreeRemote ==
    /\ pc = "limiter"
    /\ sem' = [made |-> TRUE, value |-> SearchMaxPerMinute(token),
               cap |-> SearchMaxPerMinute(token)]
    /\ idx' = 1
    /\ pc' = "find"
    /\ UNCHANGED <<env, clock, pulling, subtrees, acquired, resolution, requests, nrequests,
                   prompted, subtree_remotes, error, output>>

\* (mutation) the resolution starts without taking a token
AcquireNothing == UNCHANGED <<sem, acquired>>

\* BoundedSemaphore.acquire (blocking): waits for a token and takes it
Acquire ==
    /\ sem.value > 0
    /\ sem' = [sem EXCEPT !.value = @ - 1]
    /\ acquired' = acquired + 1

\* the timer thread's BoundedSemaphore.release; at the maximum it raises
\* ValueError, which _add_token_loop ignores
AddTokenTo(s) == IF s.value < s.cap THEN [s EXCEPT !.value = @ + 1] ELSE s

\* (mutation) release gives the token back
ReleaseGivesBack(s) == AddTokenTo(s)

\* RatedSemaphore.release, called when the `with` block is left: pass
Release(s) == s

\* rate_limited_find(subtree): `with search_rate_limit` takes one token, then
\* find_subtree_remote starts
RateLimitedFind ==
    /\ pc = "find"
    /\ idx <= Len(subtrees)
    /\ Acquire
    /\ remote_repo' = None
    /\ kebab_i' = 0
    /\ candidates' = <<>>
    /\ commits' = <<>>
    /\ page' = 1
    /\ commits_since' = [status |-> "", ahead_by |-> 0, commits |-> <<>>]
    /\ requests' = <<>>
    /\ pc' = IF HasExactName(cur) THEN "exact" ELSE AfterExact(cur)
    /\ UNCHANGED <<env, clock, pulling, subtrees, idx, nrequests, prompted, subtree_remotes,
                   error, output>>

\* the timer thread's BoundedSemaphore.release (ValueError at the maximum)
AddToken ==
    /\ sem.made
    /\ pc \notin {"done", "failed"}
    /\ sem.value < sem.cap
    /\ sem' = AddTokenTo(sem)
    /\ UNCHANGED <<env, clock, pulling, pc, subtrees, acquired, idx, resolution, requests,
                   nrequests, prompted, subtree_remotes, error, output>>

\* (mutation) every failed lookup counts as not found
IsNotFoundAnyFailure(status) == status # 200

\* repo_for_exact_name: http_ex.response.status_code == 404 becomes KeyError
IsNotFound(status) == status = 404

\* repo_for_exact_name(repo_exact_name) called by find_subtree_remote
ExactLookup ==
    /\ pc = "exact"
    /\ \E status \in Statuses :
         /\ Send(Request("exact", RepoExactName(cur), NoRef, 0, status))
         /\ IF status = 200
            THEN /\ remote_repo' = RepoExactName(cur)
                 /\ pc' = AfterRepo(cur)
                 /\ UNCHANGED error
            ELSE IF IsNotFound(status)    \* KeyError, caught by find_subtree_remote
            THEN /\ pc' = AfterExact(cur)
                 /\ UNCHANGED <<remote_repo, error>>
            ELSE /\ Raise("HTTPError")
                 /\ UNCHANGED remote_repo
    /\ UNCHANGED <<env, clock, pulling, subtrees, sem, acquired, idx, kebab_i, candidates,
                   commits, page, commits_since, prompted, subtree_remotes, output>>

\* one iteration of repo_for_kebab_name's loop; after the last one `raise
\* key_err` is caught by find_subtree_remote, which goes on to the search
KebabLookup ==
    /\ pc = "kebab"
    /\ \E status \in Statuses :
         /\ Send(Request("kebab", KebabExactName(RepoPartialName(cur), kebab_i),
                         NoRef, 0, status))
         /\ IF status = 200
            THEN /\ remote_repo' = KebabExactName(RepoPartialName(cur), kebab_i)
                 /\ pc' = AfterRepo(cur)
                 /\ UNCHANGED <<kebab_i, error>>
            ELSE IF IsNotFound(status)
            THEN /\ kebab_i' = kebab_i + 1
                 /\ pc' = IF kebab_i + 1 >= KebabCount(RepoPartialName(cur))
                          THEN "fuzzy" ELSE "kebab"
                 /\ UNCHANGED <<remote_repo, error>>
            ELSE /\ Raise("HTTPError")
                 /\ UNCHANGED <<remote_repo, kebab_i>>
    /\ UNCHANGED <<env, clock, pulling, subtrees, sem, acquired, idx, candidates, commits, page,
                   commits_since, prompted, subtree_remotes, output>>

\* repo_for_partial_name up to the prompt
SearchRepositories ==
    /\ pc = "fuzzy"
    /\ \E status \in Statuses :
         /\ Send(Request("search", RepoPartialName(cur), NoRef, 0, status))
         /\ IF status # 200
            THEN /\ Raise("HTTPError")
                 /\ UNCHANGED <<remote_repo, candidates, prompted>>
            ELSE /\ candidates' = ReposWithName(api.items, RepoPartialName(cur))
                 /\ LET decision == PartialNameDecision(api.items, RepoPartialName(cur))
                    IN  IF decision = "ValueError"
                        THEN /\ Raise("ValueError")
                             /\ UNCHANGED <<remote_repo, prompted>>
                        ELSE IF decision = "first"
                        THEN /\ remote_repo' = FullName(candidates'[1])
                             /\ pc' = AfterRepo(cur)
                             /\ UNCHANGED <<error, prompted>>
                        ELSE /\ prompted' = Append(prompted, candidates')
                             /\ pc' = "prompt"
                             /\ UNCHANGED <<remote_repo, error>>
    /\ UNCHANGED <<env, clock, pulling, subtrees, sem, acquired, idx, kebab_i, commits, page,
                   commits_since, subtree_remotes, output>>

\* prompt_to_disambiguate_repos: a validated 1-based choice
PromptToDisambiguateRepos ==
    /\ pc = "prompt"
    /\ \E choice \in 1..Len(candidates) :
         remote_repo' = FullName(candidates[choice])
    /\ pc' = AfterRepo(cur)
    /\ UNCHANGED <<env, clock, pulling, subtrees, sem, acquired, idx, kebab_i, candidates, commits,
                   page, commits_since, requests, nrequests, prompted,
                   subtree_remotes, error, output>>

\* (mutation) the count misses one commit
AllCommitsSinceOffByOne(cs) ==
    [status |-> "ahead", ahead_by |-> Len(cs) - 1, commits |-> cs]

\* repo_commits_since's result when it listed the commits itself
AllCommitsSince(cs) == [status |-> "ahead", ahead_by |-> Len(cs), commits |-> cs]

\* repo_commits_since with a since_ref: the compare endpoint
Compare ==
    /\ pc = "compare"
    /\ \E status \in Statuses :
         /\ Send(Request("compare", remote_repo, cur.last_split_ref, 0, status))
         /\ IF status # 200
            THEN /\ Raise("HTTPError")
                 /\ UNCHANGED commits_since
            ELSE /\ commits_since' = api.compare
                 /\ pc' = "tags"
                 /\ UNCHANGED error
    /\ UNCHANGED <<env, clock, pulling, subtrees, sem, acquired, idx, remote_repo, kebab_i,
                   candidates, commits, page, prompted, subtree_remotes, output>>

\* repo_commits_since without a since_ref: one iteration of the paging loop
ListCommits ==
    /\ pc = "commits"
    /\ \E status \in Statuses :
         /\ Send(Request("commits", remote_repo, NoRef, page, status))
         /\ IF status # 200
            THEN /\ Raise("HTTPError")
                 /\ UNCHANGED <<commits, page, commits_since>>
            ELSE /\ commits' = commits \o api.pages[page]
                 /\ page' = page + 1
                 /\ UNCHANGED error
                 /\ IF page < Len(api.pages)      \* the response links a next page
                    THEN UNCHANGED <<pc, commits_since>>
                    ELSE /\ commits_since' = AllCommitsSince(commits')
                         /\ pc' = "tags"
    /\ UNCHANGED <<env, clock, pulling, subtrees, sem, acquired, idx, remote_repo, kebab_i,
                   candidates, prompted, subtree_remotes, output>>

SubtreeRemote(subtree, repo, since, tags) ==
    [subtree |-> subtree, repo |-> repo, commits_since |-> since, tags_since |-> tags]

\* tags_in_commits, then find_subtree_remote returns, the `with` block is left
\* (RatedSemaphore.release does nothing) and the comprehension moves on
ListTags ==
    /\ pc = "tags"
    /\ \E status \in Statuses :
         /\ Send(Request("tags", remote_repo, NoRef, 0, status))
         /\ IF status # 200
            THEN /\ Raise("HTTPError")
                 /\ UNCHANGED <<subtree_remotes, idx>>
            ELSE /\ subtree_remotes' = Append(subtree_remotes,
                       SubtreeRemote(cur, remote_repo, commits_since,
                                     TagsInCommits(api.tags, commits_since.commits)))
                 /\ idx' = idx + 1
                 /\ pc' = "find"
                 /\ UNCHANGED error
    /\ sem' = Release(sem)
    /\ UNCHANGED <<env, clock, pulling, subtrees, acquired, resolution, prompted, output>>

\* (mutation) the list is handed on as soon as one subtree is resolved
ReturnedEarly == pc = "find" /\ idx > 1

\* validate_subtree_remotes has returned: the comprehension went through every
\* subtree
Returned == pc = "find" /\ idx > Len(subtrees)

\* command.py diff: print_subtree_diff(subtree_remotes)
PrintSubtreeDiff ==
    /\ Returned
    /\ output' = PrintSubtreeDiffRows(subtree_remotes)
    /\ pc' = "done"
    /\ UNCHANGED <<env, clock, pulling, subtrees, sem, acquired, idx, resolution, requests,
                   nrequests, prompted, subtree_remotes, error>>

\* local_repo.git.subtree(op, git_url, 'master', prefix=..., squash=...)
GitSubtree(op, remote, squashed) ==
    [op |-> op, url |-> remote.repo, ref |-> "master",
     prefix |-> remote.subtree.prefix, squash |-> squashed]

\* (mutation) is_ahead is tested before exists
PullCallAheadFirst(remote) ==
    IF IsAhead(remote) THEN "pull"
    ELSE IF ~SubtreeExists(remote.subtree) THEN "add"
    ELSE "none"

\* pull's if / elif / else over one remote: the git subtree command it runs
PullCall(remote) ==
    IF ~SubtreeExists(remote.subtree) THEN "add"
    ELSE IF IsAhead(remote) THEN "pull"
    ELSE "none"

\* print_up_to_date(remote)
UpToDateLine(remote) ==
    [prefix |-> remote.subtree.prefix, repo |-> remote.repo,
     ahead_by |-> [label |-> "already up-to-date", n |-> 0]]

\* click.echo(local_repo.git.status())
StatusLine == [prefix |-> <<>>, repo |-> None, ahead_by |-> [label |-> "git status", n |-> 0]]

\* command.py pull: one iteration of the loop over subtree_remotes; the git
\* command either succeeds or exits non-zero, which raises GitCommandError
PullSubtree ==
    /\ Returned
    /\ pull_i <= Len(subtree_remotes)
    /\ LET remote == subtree_remotes[pull_i]
           op == PullCall(remote)
       IN  IF op = "none"
           THEN /\ output' = Append(output, UpToDateLine(remote))
                /\ pull_i' = pull_i + 1
                /\ UNCHANGED <<git_calls, pc, error>>
           ELSE /\ git_calls' = Append(git_calls, GitSubtree(op, remote, squash))
                /\ UNCHANGED output
                /\ \E succeeded \in BOOLEAN :
                      IF succeeded
                      THEN pull_i' = pull_i + 1 /\ UNCHANGED <<pc, error>>
                      ELSE Raise("GitCommandError") /\ UNCHANGED pull_i
    /\ UNCHANGED <<env, clock, subtrees, sem, acquired, idx, resolution, requests,
                   nrequests, prompted, subtree_remotes>>

\* command.py pull: after the loop, click.echo(local_repo.git.status())
GitStatus ==
    /\ Returned
    /\ pull_i > Len(subtree_remotes)
    /\ output' = Append(output, StatusLine)
    /\ pc' = "done"
    /\ UNCHANGED <<env, clock, subtrees, sem, acquired, idx, resolution, requests,
                   nrequests, prompted, subtree_remotes, error, git_calls, pull_i>>

\* the diff command
Next ==
    \/ ValidateSubtreesStep
    \/ RateLimitFindSubtreeRemote
    \/ RateLimitedFind
    \/ AddToken
    \/ ExactLookup
    \/ KebabLookup
    \/ SearchRepositories
    \/ PromptToDisambiguateRepos
    \/ Compare
    \/ ListCommits
    \/ ListTags
    \/ PrintSubtreeDiff

\* the pull command
NextPull ==
    \/ ValidateSubtreesStep
    \/ RateLimitFindSubtreeRemote
    \/ RateLimitedFind
    \/ AddToken
    \/ ExactLookup
    \/ KebabLookup
    \/ SearchRepositories
    \/ PromptToDisambiguateRepos
    \/ Compare
    \/ ListCommits
    \/ ListTags
    \/ PullSubtree
    \/ GitStatus

\* ------------------------------------------------------------ initial states
Hashes == {"h1", "h2"}
ShaPool == {"s1", "s2"}

Commit(sha) == [sha |-> sha]

BoundedSeq(S, n) == UNION {[1..k -> S] : k \in 0..n}

\* the limiter's clock where time is not modelled
NoClock ==
    /\ now = 0
    /\ next_add = 0
    /\ time_delta = 0
    /\ issued = <<>>

\* everything the command has not yet touched
Fresh ==
    /\ NoClock
    /\ pc = "validate"
    /\ subtrees = <<>>
    /\ sem = [made |-> FALSE, value |-> 0, cap |-> 0]
    /\ acquired = 0
    /\ idx = 0
    /\ remote_repo = None
    /\ kebab_i = 0
    /\ candidates = <<>>
    /\ commits = <<>>
    /\ page = 1
    /\ commits_since = [status |-> "", ahead_by |-> 0, commits |-> <<>>]
    /\ requests = <<>>
    /\ nrequests = 0
    /\ prompted = <<>>
    /\ subtree_remotes = <<>>
    /\ error = ""
    /\ output = <<>>
    /\ git_calls = <<>>
    /\ pull_i = 1

\* prefixes of a batch: owner/name, kebab, bare name
PA == <<"a", "/", "a">>
PB == <<"a", "-", "a">>
PC == <<"a">>
BatchPool == {PA, PB, PC}

Item(owner, name, score) == [owner |-> owner, name |-> name, score |-> score]

DefaultApi ==
    [items |-> <<Item(<<"a">>, <<"a">>, 45), Item(<<"-">>, <<"a">>, 44)>>,
     compare |-> [status |-> "diverged", ahead_by |-> 1, commits |-> <<Commit("s1")>>],
     pages |-> <<<<Commit("s1")>>, <<Commit("s2")>>>>,
     tags |-> <<[name |-> "v1", sha |-> "s1"], [name |-> "v2", sha |-> "s2"]>>]

\* a command line of up to MaxBatch prefixes (or --all) in a repository that
\* has or has not imported a/a, with or without the directories a and a/a
Init ==
    /\ Fresh
    /\ is_all \in BOOLEAN
    /\ squash = FALSE
    /\ prefixes \in BoundedSeq(BatchPool, MaxBatch)
    /\ token \in BOOLEAN
    /\ gitlog \in {<<>>, <<[dir |-> PA, split |-> "h1"]>>}
    /\ fs \in {{}, {PC, PA}}
    /\ api = DefaultApi

Spec == Init /\ [][Next]_vars

\* local repository: any history of up to MaxLog subtree commits for the
\* directories a, a-a and a/a, any working tree made of them, and up to
\* MaxArgs prefixes (or --all)
DirPool == {PC, PB, PA}
LocalPool == DirPool \cup {<<"a", "/">>}
Trees == {t \in SUBSET DirPool : PA \in t => PC \in t}

InitLocal ==
    /\ Fresh
    /\ is_all \in BOOLEAN
    /\ squash = FALSE
    /\ prefixes \in BoundedSeq(LocalPool, MaxArgs)
    /\ token = FALSE
    /\ gitlog \in BoundedSeq([dir : DirPool, split : Hashes], MaxLog)
    /\ fs \in Trees
    /\ api = DefaultApi

NextLocal == ValidateSubtreesStep

SpecLocal == InitLocal /\ [][NextLocal]_vars

\* name resolution: one relative, non-empty prefix of up to MaxLen characters,
\* either never imported (no directory) or imported once
NamePool == {p \in Strings(MaxLen) : p # <<>> /\ p[1] # "/"}

InitFind ==
    /\ Fresh
    /\ is_all = FALSE
    /\ squash = FALSE
    /\ token = FALSE
    /\ api = DefaultApi
    /\ \E p \in NamePool :
         /\ prefixes = <<p>>
         /\ \/ gitlog = <<>> /\ fs = {}
            \/ /\ gitlog = <<[dir |-> RStrip(NormPath(p), "/"), split |-> "h1"]>>
               /\ fs = {NormPath(p)}

SpecFind == InitFind /\ [][Next]_vars

\* the command inside the resolution of its only subtree, about to take `step`
\* with nothing requested yet for it
InFlight(subtree, step, sent) ==
    /\ NoClock
    /\ is_all = FALSE
    /\ squash = FALSE
    /\ prefixes = <<subtree.prefix>>
    /\ token = FALSE
    /\ gitlog = IF SubtreeExists(subtree)
                THEN <<[dir |-> subtree.prefix, split |-> subtree.last_split_ref]>>
                ELSE <<>>
    /\ fs = IF SubtreeExists(subtree) THEN {subtree.prefix} ELSE {}
    /\ pc = step
    /\ subtrees = <<subtree>>
    /\ sem = [made |-> TRUE, value |-> SearchMaxAnon - 1, cap |-> SearchMaxAnon]
    /\ acquired = 1
    /\ idx = 1
    /\ kebab_i = 0
    /\ candidates = <<>>
    /\ commits = <<>>
    /\ page = 1
    /\ requests = sent
    /\ nrequests = Len(sent)
    /\ prompted = <<>>
    /\ subtree_remotes = <<>>
    /\ error = ""
    /\ output = <<>>
    /\ git_calls = <<>>
    /\ pull_i = 1

\* disambiguation: the search for the bare name "a" answers with up to
\* MaxItems items, in the API's order, each named "a" or "aa"
ScorePool == {20, 30, 40, 44, 45, 50, 51, 55, 60, 80, 81}
OwnerAt(i) == [j \in 1..i |-> "a"]
ItemList(names, scores) ==
    [i \in 1..Len(names) |-> Item(OwnerAt(i), names[i], scores[i])]

InitPartial ==
    /\ InFlight(Subtree(PC, NoRef), "fuzzy", <<>>)
    /\ remote_repo = None
    /\ commits_since = [status |-> "", ahead_by |-> 0, commits |-> <<>>]
    /\ \E n \in 0..MaxItems :
         \E names \in [1..n -> {<<"a">>, <<"a", "a">>}], scores \in [1..n -> ScorePool] :
            api = [DefaultApi EXCEPT !.items = ItemList(names, scores)]

NextPartial == SearchRepositories \/ PromptToDisambiguateRepos

SpecPartial == InitPartial /\ [][NextPartial]_vars

\* divergence: the repository a/a was found by the exact lookup; either the
\* subtree is new and the commit listing has up to MaxPages pages of up to
\* MaxPageLen commits, or it has a split reference and the compare endpoint
\* answers with any status, count and commits
Commits == {Commit(sha) : sha \in ShaPool}
CompareResults ==
    [status : {"ahead", "diverged", "identical", "behind"},
     ahead_by : 0..MaxPageLen,
     commits : BoundedSeq(Commits, MaxPageLen)]
Found == <<Request("exact", PA, NoRef, 0, 200)>>

InitCommits ==
    /\ remote_repo = PA
    /\ commits_since = [status |-> "", ahead_by |-> 0, commits |-> <<>>]
    /\ \/ /\ InFlight(Subtree(PA, NoRef), "commits", Found)
          /\ \E n \in 1..MaxPages :
                \E pages \in [1..n -> BoundedSeq(Commits, MaxPageLen)] :
                   api = [DefaultApi EXCEPT !.pages = pages]
       \/ /\ \E ref \in Hashes : InFlight(Subtree(PA, ref), "compare", Found)
          /\ \E result \in CompareResults :
                api = [DefaultApi EXCEPT !.compare = result]

NextCommits == Compare \/ ListCommits

SpecCommits == InitCommits /\ [][NextCommits]_vars

\* tag filtering: the compare endpoint has answered with up to MaxPageLen
\* commits and the repository has up to MaxTags tags
TagPool == [name : {"v1", "v2"}, sha : ShaPool \cup {"s3"}]

InitTags ==
    /\ remote_repo = PA
    /\ \E cs \in BoundedSeq(Commits, MaxPageLen), tags \in BoundedSeq(TagPool, MaxTags) :
         /\ api = [DefaultApi EXCEPT
                      !.compare = [status |-> "ahead", ahead_by |-> Len(cs), commits |-> cs],
                      !.tags = tags]
         /\ commits_since = [status |-> "ahead", ahead_by |-> Len(cs), commits |-> cs]
         /\ InFlight(Subtree(PA, "h1"), "tags",
                     Found \o <<Request("compare", PA, "h1", 0, 200)>>)

NextTags == ListTags

SpecTags == InitTags /\ [][NextTags]_vars

\* a batch that outlasts the limiter: one more bare-name prefix than the
\* limiter has tokens, each resolved by the search's only hit
OnlyHit == <<Item(<<"a">>, <<"a">>, 45)>>

InitDrain ==
    /\ Fresh
    /\ is_all = FALSE
    /\ squash = FALSE
    /\ token \in BOOLEAN
    /\ prefixes = [i \in 1..(SearchMaxPerMinute(token) + 1) |-> PC]
    /\ \/ gitlog = <<>> /\ fs = {}
       \/ gitlog = <<[dir |-> PC, split |-> "h1"]>> /\ fs = {PC}
    /\ api = [DefaultApi EXCEPT !.items = OnlyHit]

NextDrain ==
    \/ ValidateSubtreesStep
    \/ RateLimitFindSubtreeRemote
    \/ RateLimitedFind
    \/ AddToken
    \/ SearchRepositories
    \/ Compare
    \/ ListCommits
    \/ ListTags
    \/ PrintSubtreeDiff

SpecDrain == InitDrain /\ [][NextDrain]_vars

\* the report: up to MaxArgs prefixes a/a and a/a-a, each imported or not,
\* against a hosting service whose commit listing has one page of up to
\* MaxPageLen commits (none included) and whose compare endpoint answers with
\* any status and up to MaxPageLen commits ahead
PD == <<"a", "/", "a", "-", "a">>
ReportPool == {PA, PD}
Imported(dirs) == [i \in 1..Len(dirs) |-> [dir |-> dirs[i], split |-> "h1"]]

InitReport ==
    /\ Fresh
    /\ is_all = FALSE
    /\ squash = FALSE
    /\ token = FALSE
    /\ prefixes \in BoundedSeq(ReportPool, MaxArgs) \ {<<>>}
    /\ \E dirs \in {<<>>, <<PA>>, <<PD>>, <<PA, PD>>} :
          /\ gitlog = Imported(dirs)
          /\ fs = Range(dirs)
    /\ \E st \in {"ahead", "diverged", "identical", "behind"},
          cs \in BoundedSeq({Commit("s1")}, MaxPageLen),
          listed \in BoundedSeq({Commit("s1")}, MaxPageLen) :
          api = [DefaultApi EXCEPT
                    !.compare = [status |-> st, ahead_by |-> Len(cs), commits |-> cs],
                    !.pages = <<listed>>]

SpecReport == InitReport /\ [][Next]_vars

\* pull, with or without --squash, of up to MaxArgs prefixes a/a and a/a-a,
\* each imported or not; the compare endpoint finds the remote ahead,
\* diverged, identical or behind, the commit listing has a commit or none
ComparePool ==
    {[status |-> "ahead", ahead_by |-> 1, commits |-> <<Commit("s1")>>],
     [status |-> "diverged", ahead_by |-> 1, commits |-> <<Commit("s1")>>],
     [status |-> "identical", ahead_by |-> 0, commits |-> <<>>],
     [status |-> "behind", ahead_by |-> 0, commits |-> <<>>]}

InitPull ==
    /\ Fresh
    /\ is_all = FALSE
    /\ squash \in BOOLEAN
    /\ token = FALSE
    /\ prefixes \in BoundedSeq(ReportPool, MaxArgs) \ {<<>>}
    /\ \E dirs \in {<<>>, <<PA>>, <<PD>>, <<PA, PD>>} :
          /\ gitlog = Imported(dirs)
          /\ fs = Range(dirs)
    /\ \E result \in ComparePool, listed \in {<<>>, <<Commit("s1")>>} :
          api = [DefaultApi EXCEPT !.compare = result, !.pages = <<listed>>]

SpecPull == InitPull /\ [][NextPull]_vars

\* ------------------------------------------------- utilities.py, with time
\* (mutation) the timer thread starts adding tokens at once
TimerStartAtOnce(period) == 0

\* Timer(period, self._add_token_loop, ...): the first wake-up of the thread
TimerStart(period) == period

\* RatedSemaphore(value, period) just constructed, period = value * time_delta,
\* in a process that does nothing but use the limiter
InitLimiter ==
    /\ is_all = FALSE
    /\ squash = FALSE
    /\ prefixes = <<>>
    /\ token = FALSE
    /\ gitlog = <<>>
    /\ fs = {}
    /\ api = DefaultApi
    /\ pc = "limiter"
    /\ subtrees = <<>>
    /\ idx = 0
    /\ remote_repo = None
    /\ kebab_i = 0
    /\ candidates = <<>>
    /\ commits = <<>>
    /\ page = 1
    /\ commits_since = [status |-> "", ahead_by |-> 0, commits |-> <<>>]
    /\ requests = <<>>
    /\ nrequests = 0
    /\ prompted = <<>>
    /\ subtree_remotes = <<>>
    /\ error = ""
    /\ output = <<>>
    /\ git_calls = <<>>
    /\ pull_i = 1
    /\ acquired = 0
    /\ issued = <<>>
    /\ now = 0
    /\ \E value \in 1..MaxCap, delta \in 1..MaxDelta :
         /\ sem = [made |-> TRUE, value |-> value, cap |-> value]
         /\ time_delta = delta
         /\ next_add = TimerStart(value * delta)

flow == <<is_all, squash, prefixes, token, gitlog, fs, api, pc, subtrees, idx,
          remote_repo, kebab_i, candidates, commits, page, commits_since, requests,
          nrequests, prompted, subtree_remotes, error, output, git_calls, pull_i>>

Period == sem.cap * time_delta

\* time passes
Tick ==
    /\ now < Period + MaxLate
    /\ now' = now + 1
    /\ UNCHANGED <<flow, sem, acquired, next_add, time_delta, issued>>

\* one round of _add_token_loop: the thread wakes up no earlier than asked,
\* releases (ValueError at the maximum is ignored) and sleeps time_delta
TimerAddToken ==
    /\ now >= next_add
    /\ sem' = AddTokenTo(sem)
    /\ next_add' = now + time_delta
    /\ UNCHANGED <<flow, acquired, now, time_delta, issued>>

\* a caller takes a token; the (cap+1)th taking is the last one observed
TimedAcquire ==
    /\ Len(issued) <= sem.cap
    /\ Acquire
    /\ issued' = Append(issued, now)
    /\ UNCHANGED <<flow, now, next_add, time_delta>>

NextLimiter == Tick \/ TimerAddToken \/ TimedAcquire

SpecLimiter == InitLimiter /\ [][NextLimiter]_vars

\* ------------------------------------------------------------------ claims
InResolution == pc \in {"exact", "kebab", "fuzzy", "prompt", "compare", "commits", "tags"}

ResolutionFailed == pc = "failed" /\ error \in {"HTTPError", "ValueError"}

C3_TokenPerRequest == nrequests <= acquired

\* C3 amended: the limiter gates resolutions, not requests -- one token is
\* taken per subtree resolution, before the first request of that resolution,
\* and all requests of the resolution are issued under that one token; no
\* request is issued before the limiter exists and a token has been taken.
C3_TokenPerResolution ==
    /\ InResolution => acquired = idx
    /\ pc = "find" => acquired = idx - 1
    /\ ResolutionFailed => acquired = idx
    /\ acquired = Len(subtree_remotes) + (IF InResolution \/ ResolutionFailed THEN 1 ELSE 0)
    /\ (~sem.made \/ acquired = 0) => nrequests = 0
    /\ requests # <<>> => acquired >= 1
    /\ nrequests >= acquired - (IF InResolution /\ requests = <<>> THEN 1 ELSE 0)

\* C3 witness: a resolution that has issued several requests under one token
C3_Witness == acquired = 1 /\ nrequests >= 3 /\ InResolution

\* C9 as claimed: a prefix with no recorded subtree import is always
\* constructed with last_split_ref absent, whether or not a directory exists
\* at the prefix, and validate_subtrees never fails for it.
Recorded(log, prefix) == \E i \in 1..Len(log) : log[i].dir = NormPath(prefix)

C9_NewSubtreeHasNoRef ==
    (pc # "validate" /\ ~is_all /\ prefixes # <<>>
        /\ \A i \in 1..Len(prefixes) : ~Recorded(gitlog, prefixes[i]))
    => /\ error # "AttributeError"
       /\ Len(subtrees) = Len(prefixes)
       /\ \A i \in 1..Len(subtrees) : subtrees[i].last_split_ref = NoRef

\* C10: an invocation with no prefixes and no --all, or with --all in a
\* repository where no subtree prefix is found, ends with the validation error
\* (BadParameter) right at validate_subtrees: the limiter is never constructed,
\* no token is taken, no request is issued, nothing is reported, and the
\* command takes no further step (the validation is not retried).
InvalidInvocation ==
    \/ ~is_all /\ prefixes = <<>>
    \/ is_all /\ ~\E i \in 1..Len(gitlog) : PathExists(fs, gitlog[i].dir)

C10_InvalidRejectedFirst ==
    /\ InvalidInvocation =>
          /\ pc \in {"validate", "failed"}
          /\ ~sem.made
          /\ acquired = 0
          /\ nrequests = 0
          /\ output = <<>>
          /\ pc = "failed" => (error = "BadParameter" /\ ~ENABLED Next)
    /\ error = "BadParameter" => InvalidInvocation

\* C10 witness: --all in a repository without subtrees, rejected
C10_Witness == is_all /\ gitlog = <<>> /\ pc = "failed" /\ error = "BadParameter"

\* ---- name resolution (C4, C5), under SpecFind
NonEmpty(x) == x # <<>>
Segments(p) == SelectSeq(Split(p, "/"), NonEmpty)
TwoSegments == Len(Segments(cur.prefix)) >= 2
LastSegment == Segments(cur.prefix)[Len(Segments(cur.prefix))]
Hyphens(name) == Cardinality({i \in 1..Len(name) : name[i] = "-"})
OfKind(kind) == SelectSeq(requests, LAMBDA r : r.kind = kind)
Resolving == (InResolution \/ ResolutionFailed) /\ idx \in 1..Len(subtrees)
OwnerOf(name) == SubSeq(name, 1, FirstIndex(name, "/") - 1)
NameOf(name) == SubSeq(name, FirstIndex(name, "/") + 1, Len(name))
KebabDone == pc \in {"fuzzy", "prompt"} \/ OfKind("search") # <<>>

\* C4 as claimed: for a basename with k hyphens the kebab strategy looks up
\* exactly k distinct owner/name splits when none resolves, each with a
\* non-empty owner and a non-empty name, from the shortest owner to the
\* longest, and stops at (and returns) the first split that resolves.
\* (Stated for basenames whose hyphen-separated tokens are all non-empty.)
C4_KebabExactlyK ==
    (Resolving /\ \A t \in Range(Split(LastSegment, "-")) : t # <<>>) =>
        LET kebab == OfKind("kebab")
            k == Hyphens(LastSegment)
        IN  /\ Len(kebab) <= k
            /\ \A i \in 1..Len(kebab) :
                  /\ OwnerOf(kebab[i].name) # <<>>
                  /\ NameOf(kebab[i].name) # <<>>
                  /\ \A j \in 1..(i-1) :
                        /\ kebab[j].name # kebab[i].name
                        /\ Len(OwnerOf(kebab[j].name)) < Len(OwnerOf(kebab[i].name))
                        /\ kebab[j].status # 200
            /\ (KebabDone /\ kebab # <<>>) => Len(kebab) = k

Rank(kind) ==
    CASE kind = "exact" -> 1 [] kind = "kebab" -> 2 [] kind = "search" -> 3
      [] kind = "tags" -> 5 [] OTHER -> 4

\* C5: within one resolution the requests come in the order exact, kebab,
\* search, then compare/commits, then tags; the exact lookup is made exactly
\* when the prefix has two segments, kebab lookups only when the basename has
\* a hyphen; a lookup is made only after every earlier one answered 404, a
\* search only after every applicable earlier strategy was tried and answered
\* 404; after a strategy yields a repository no lookup or search follows; and
\* the not-found ValueError is raised only by the search, after all of that.
C5_StrategyOrder ==
    Resolving =>
        /\ \A i, j \in 1..Len(requests) :
              i < j => Rank(requests[i].kind) <= Rank(requests[j].kind)
        /\ Len(OfKind("exact")) <= 1
        /\ Len(OfKind("search")) <= 1
        /\ requests # <<>> => (requests[1].kind = "exact" <=> TwoSegments)
        /\ OfKind("kebab") # <<>> => Contains(LastSegment, "-")
        /\ \A j \in 1..Len(requests) :
              requests[j].kind \in {"exact", "kebab", "search"} =>
                 \A i \in 1..(j-1) : requests[i].status = 404
        /\ (OfKind("search") # <<>> \/ pc \in {"fuzzy", "prompt"}) =>
              /\ TwoSegments => OfKind("exact") # <<>>
              /\ Contains(LastSegment, "-") => OfKind("kebab") # <<>>
        /\ pc \in {"compare", "commits", "tags"} =>
              /\ remote_repo # None
              /\ \E i \in 1..Len(requests) :
                    /\ requests[i].kind \in {"exact", "kebab", "search"}
                    /\ requests[i].status = 200
                    /\ \A j \in (i+1)..Len(requests) :
                          requests[j].kind \in {"compare", "commits", "tags"}
        /\ (requests # <<>> /\ requests[Len(requests)].status = 404
               /\ requests[Len(requests)].kind = "exact") =>
              pc = (IF Contains(LastSegment, "-") THEN "kebab" ELSE "fuzzy")
        /\ (requests # <<>> /\ requests[Len(requests)].status = 404
               /\ requests[Len(requests)].kind = "kebab") =>
              pc \in {"kebab", "fuzzy"}
        /\ error = "ValueError" =>
              /\ requests[Len(requests)].kind = "search"
              /\ requests[Len(requests)].status = 200

\* C5 witness: exact and kebab both answered 404, the search found nothing
C5_Witness ==
    /\ Resolving
    /\ error = "ValueError"
    /\ OfKind("exact") # <<>>
    /\ OfKind("kebab") # <<>>

\* ---- disambiguation (C6), under SpecPartial
ExactNameCandidates == SelectSeq(api.items, LAMBDA repo : repo.name = PC)
ScoresOf(cs) == [i \in 1..Len(cs) |-> cs[i].score]
Searched == requests # <<>> /\ requests[1].kind = "search" /\ requests[1].status = 200

\* C6: once the search has answered, with c the exact-name candidates in API
\* order: an empty c fails with the not-found ValueError; candidate 0 is taken
\* without a prompt exactly when c has one element or c[0].score > 50 and
\* c[0].score - c[1].score > 30; otherwise the prompt is shown the whole of c
\* and the choice made there is taken. [80,40] and [60,20] auto-select,
\* [55,30] and [45,44] prompt.
C6_Disambiguation ==
    Searched =>
        LET c == ExactNameCandidates
            auto == \/ Len(c) = 1
                    \/ Len(c) >= 2 /\ c[1].score > 50 /\ c[1].score - c[2].score > 30
        IN  /\ c = <<>> => (pc = "failed" /\ error = "ValueError" /\ prompted = <<>>)
            /\ (c # <<>> /\ auto) =>
                  (prompted = <<>> /\ pc = "commits" /\ remote_repo = FullName(c[1]))
            /\ (c # <<>> /\ ~auto) =>
                  /\ prompted = <<c>>
                  /\ \/ pc = "prompt" /\ remote_repo = None
                     \/ pc = "commits" /\ \E i \in 1..Len(c) : remote_repo = FullName(c[i])
            /\ ScoresOf(c) \in {<<80, 40>>, <<60, 20>>} => prompted = <<>>
            /\ ScoresOf(c) \in {<<55, 30>>, <<45, 44>>} => prompted = <<c>>

\* C6 witness: [60, 20] selected without a prompt
C6_Witness ==
    /\ Searched
    /\ ScoresOf(ExactNameCandidates) = <<60, 20>>
    /\ Len(api.items) > 2
    /\ prompted = <<>>
    /\ remote_repo = FullName(ExactNameCandidates[1])

\* ---- divergence (C7), under SpecCommits
RECURSIVE TotalCommits(_)
TotalCommits(pages) ==
    IF pages = <<>> THEN 0 ELSE Len(pages[1]) + TotalCommits(Tail(pages))

\* C7: a subtree without last_split_ref never makes a compare request; its
\* commit listing is requested page after page (1, 2, ...) until the last page
\* of the listing, and the result is then status 'ahead' with ahead_by the
\* total number of commits of all pages and commits their concatenation in
\* page order. A subtree with last_split_ref makes only the one compare
\* request, with base = last_split_ref, and its result is the response as is.
C7_CommitsSince ==
    LET since_ref == subtrees[1].last_split_ref
        compares == OfKind("compare")
        listings == OfKind("commits")
    IN  /\ since_ref = NoRef =>
              /\ compares = <<>>
              /\ Len(listings) <= Len(api.pages)
              /\ \A i \in 1..Len(listings) :
                    /\ listings[i].page = i
                    /\ listings[i].name = remote_repo
                    /\ i < Len(listings) => listings[i].status = 200
              /\ pc = "commits" => Len(listings) < Len(api.pages)
              /\ pc = "tags" =>
                    /\ Len(listings) = Len(api.pages)
                    /\ commits_since.status = "ahead"
                    /\ commits_since.ahead_by = TotalCommits(api.pages)
                    /\ commits_since.commits = Concat(api.pages)
        /\ since_ref # NoRef =>
              /\ listings = <<>>
              /\ Len(compares) <= 1
              /\ \A i \in 1..Len(compares) :
                    compares[i].base = since_ref /\ compares[i].name = remote_repo
              /\ pc = "tags" => (Len(compares) = 1 /\ commits_since = api.compare)

\* C7 witness: two pages followed, three or more commits counted
C7_Witness ==
    /\ subtrees[1].last_split_ref = NoRef
    /\ pc = "tags"
    /\ Len(api.pages) = 2
    /\ commits_since.ahead_by >= 3

\* ---- tag filtering (C8), under SpecTags
Matching == {i \in 1..Len(api.tags) : api.tags[i].sha \in Shas(commits_since.commits)}
NthMatching(k) == CHOOSE i \in Matching : Cardinality({j \in Matching : j <= i}) = k

\* C8: tags_since holds exactly the repository's tags whose sha is the sha of
\* one of the given commits -- none outside, none missing, each as often as
\* the API lists it -- in the API's order, and is empty for no commits.
C8_TagsInCommits ==
    (pc = "find" /\ Len(subtree_remotes) = 1) =>
        LET tags_since == subtree_remotes[1].tags_since
        IN  /\ Len(tags_since) = Cardinality(Matching)
            /\ \A k \in 1..Len(tags_since) : tags_since[k] = api.tags[NthMatching(k)]
            /\ \A k \in 1..Len(tags_since) :
                  \E c \in Range(commits_since.commits) : c.sha = tags_since[k].sha
            /\ commits_since.commits = <<>> => tags_since = <<>>

\* C8 witness: of two tags only the second one's commit is among the commits
C8_Witness ==
    /\ pc = "find"
    /\ Len(subtree_remotes) = 1
    /\ Len(api.tags) = 2
    /\ subtree_remotes[1].tags_since = <<api.tags[2]>>
    /\ api.tags[1].sha \notin Shas(commits_since.commits)

\* ---- rate limiter (C2), under SpecLimiter
\* C2 as claimed: whatever the delay between constructing the limiter and the
\* first acquisition, the (C+1)th acquisition is not served before W/C has
\* elapsed since the first token was issued.
C2_NonOvercommitAnyDelay ==
    Len(issued) >= sem.cap + 1 => issued[sem.cap + 1] - issued[1] >= time_delta

\* C2 amended: when the first token is issued no later than W - W/C after the
\* limiter was constructed, the (C+1)th acquisition is not served before W/C
\* has elapsed since the first token; and in every execution the (C+1)th
\* acquisition is not served before W has elapsed since construction.
C2_NonOvercommitEarlyStart ==
    Len(issued) >= sem.cap + 1 =>
        /\ issued[sem.cap + 1] >= Period
        /\ issued[1] <= Period - time_delta =>
              issued[sem.cap + 1] - issued[1] >= time_delta

\* C2 witness: C+1 acquisitions issued from construction on, the last one
\* served exactly when the timer first adds a token
C2_Witness ==
    /\ sem.cap >= 2
    /\ time_delta >= 2
    /\ Len(issued) = sem.cap + 1
    /\ issued[1] = 0
    /\ issued[sem.cap] = 0
    /\ issued[sem.cap + 1] = Period

\* ---- limiter capacity (C11), under SpecDrain
\* C11: in every reachable state the limiter's available tokens lie in
\* 0..capacity, the capacity being 30 with an Authorization header and 10
\* without; with zero tokens the next resolution cannot start (the acquisition
\* blocks); leaving the `with` block around a resolution, by return or by
\* exception, leaves the token count as it was; and the count only ever grows
\* by one token at a time, in a step of the timer thread alone (the command
\* itself takes no step then).
C11_LimiterInvariant ==
    /\ [](sem.made => /\ sem.cap = (IF token THEN 30 ELSE 10)
                      /\ sem.value \in 0..sem.cap)
    /\ []((sem.made /\ sem.value = 0) => ~ENABLED RateLimitedFind)
    /\ [][sem.made =>
             /\ sem'.cap = sem.cap
             /\ (InResolution /\ ~InResolution') => sem'.value = sem.value
             /\ sem'.value < sem.value =>
                   (sem'.value = sem.value - 1 /\ acquired' = acquired + 1)
             /\ sem'.value > sem.value =>
                   (sem'.value = sem.value + 1 /\ UNCHANGED flow)]_vars

\* C11 witness: every token taken and every `with` block left again, the
\* limiter empty and the next resolution waiting for the timer
C11_Witness ==
    /\ sem.made
    /\ sem.value = 0
    /\ pc = "find"
    /\ idx = Len(subtrees)
    /\ acquired = sem.cap
    /\ Len(subtree_remotes) = sem.cap
    /\ ~ENABLED RateLimitedFind

\* ---- fatal lookup failures (C12), under SpecFind
\* C12: when the exact lookup or a kebab-split lookup answers with a failure
\* status other than 404, that request is the last one of the resolution: the
\* command has ended there with a transport error (HTTPError), no repository
\* was taken, no remaining kebab split, search, compare, commit listing or tag
\* listing was requested, nothing is reported and no further step is taken.
\* Only a 404 is recoverable: a lookup is followed by another lookup or the
\* search only if it answered 404, and after a 404 the resolution goes on with
\* the next strategy without an error.
C12_NonNotFoundFatal ==
    Resolving =>
        \A i \in 1..Len(requests) :
            requests[i].kind \in {"exact", "kebab"} =>
                /\ requests[i].status \notin {200, 404} =>
                      /\ i = Len(requests)
                      /\ pc = "failed"
                      /\ error = "HTTPError"
                      /\ remote_repo = None
                      /\ subtree_remotes = <<>>
                      /\ output = <<>>
                      /\ ~ENABLED Next
                /\ (requests[i].status = 404 /\ i = Len(requests)) =>
                      (pc \in {"kebab", "fuzzy"} /\ error = "" /\ remote_repo = None)
                /\ (i < Len(requests)
                      /\ requests[i + 1].kind \in {"exact", "kebab", "search"}) =>
                      requests[i].status = 404
                /\ (error = "HTTPError" /\ i = Len(requests)) =>
                      requests[i].status \notin {200, 404}

\* C12 witness: the exact lookup answered 404, the first kebab split failed
\* with another status while a further split was still untried
C12_Witness ==
    /\ Resolving
    /\ error = "HTTPError"
    /\ Len(requests) = 2
    /\ requests[1].kind = "exact" /\ requests[1].status = 404
    /\ requests[2].kind = "kebab" /\ requests[2].status = 500
    /\ Hyphens(LastSegment) >= 2

\* ---- split reference of a prefix (C13), under SpecLocal
OwnCommits(log, prefix) == SelectSeq(log, LAMBDA c : c.dir = NormPath(prefix))

\* C13 as claimed: the split reference found for prefix P is the
\* git-subtree-split hash of the most recent commit whose git-subtree-dir
\* equals P exactly; a commit recorded for another prefix (one that merely
\* starts with P) never supplies it. (Stated for prefixes whose directory
\* exists and that have a commit of their own in the history.)
C13_SplitOfExactPrefix ==
    pc = "limiter" =>
        \A i \in 1..Len(subtrees) :
            LET own == OwnCommits(gitlog, subtrees[i].prefix)
            IN  (PathExists(fs, subtrees[i].prefix) /\ own # <<>>) =>
                    subtrees[i].last_split_ref = own[1].split

\* ---- the diff report (C14), under SpecReport
UpToDateLabels == {"(up-to-date)", "already up-to-date"}

\* C14 as claimed: for a batch of any size, a batch of one included, the
\* report has one entry per resolved subtree, in order, and the entry says
\* new when the subtree has no last_split_ref; otherwise diverged when the
\* status is 'diverged'; otherwise the count when ahead_by > 0; and up-to-date
\* only when the subtree exists, is not diverged and has ahead_by = 0.
C14_ReportDistinguishes ==
    pc = "done" =>
        /\ Len(output) = Len(subtree_remotes)
        /\ \A i \in 1..Len(output) :
              LET remote == subtree_remotes[i]
                  said == output[i].ahead_by
                  new == remote.subtree.last_split_ref = NoRef
                  diverged == remote.commits_since.status = "diverged"
                  ahead_by == remote.commits_since.ahead_by
              IN  /\ output[i].prefix = remote.subtree.prefix
                  /\ new => said.label = "(new)"
                  /\ (~new /\ diverged) => said.label = "(diverged)"
                  /\ (~new /\ ~diverged /\ ahead_by > 0) =>
                        (said.label = "count" /\ said.n = ahead_by)
                  /\ said.label \in UpToDateLabels <=>
                        (~new /\ ~diverged /\ ahead_by = 0)

\* ---- the pull command (C15, C16), under SpecPull
\* C15: pull runs no git subtree add or pull before every subtree of the batch
\* has been resolved -- while a subtree is unresolved no call has been made
\* and the loop has not started -- and when the validation or the resolution
\* of any subtree fails, the command ends without having made any call.
C15_ResolveAllThenMutate ==
    /\ (git_calls # <<>> \/ pull_i > 1) =>
          /\ subtrees # <<>>
          /\ idx > Len(subtrees)
          /\ Len(subtree_remotes) = Len(subtrees)
          /\ \A i \in 1..Len(subtrees) : subtree_remotes[i].subtree = subtrees[i]
    /\ (InResolution \/ Len(subtree_remotes) < Len(subtrees)) => git_calls = <<>>
    /\ (pc = "failed" /\ error \in {"BadParameter", "AttributeError", "HTTPError",
                                     "ValueError"}) =>
          /\ git_calls = <<>>
          /\ pull_i = 1
          /\ ~ENABLED NextPull

\* C15 witness: of two subtrees the first, not yet imported, was resolved and
\* the second failed to resolve: nothing was added
C15_Witness ==
    /\ ResolutionFailed
    /\ Len(subtrees) = 2
    /\ Len(subtree_remotes) = 1
    /\ subtree_remotes[1].subtree.last_split_ref = NoRef
    /\ git_calls = <<>>

\* the calls the claim asks for, for the remotes rs in order
RECURSIVE CallsFor(_)
CallsFor(rs) ==
    IF rs = <<>> THEN <<>>
    ELSE LET new == rs[1].subtree.last_split_ref = NoRef
             ahead == rs[1].commits_since.ahead_by > 0
             call == IF new THEN <<[op |-> "add", prefix |-> rs[1].subtree.prefix]>>
                     ELSE IF ahead THEN <<[op |-> "pull", prefix |-> rs[1].subtree.prefix]>>
                     ELSE <<>>
         IN  call \o CallsFor(Tail(rs))

\* the remotes the loop has been at: those passed, and the one whose git
\* command failed
Attempted == IF error = "GitCommandError" THEN pull_i ELSE pull_i - 1

\* C16: the mutator calls made so far are, in input order, exactly one call
\* for each remote the loop has been at that has no last_split_ref (subtree
\* add, whatever its ahead_by) or has one and ahead_by > 0 (subtree pull,
\* whatever its status), and none for a remote that has a last_split_ref and
\* ahead_by = 0; each call names that remote's repository and prefix; and a
\* pull that ends normally has been at every subtree of the batch.
C16_OneCallPerSubtree ==
    /\ [i \in 1..Len(git_calls) |-> [op |-> git_calls[i].op, prefix |-> git_calls[i].prefix]]
          = CallsFor(SubSeq(subtree_remotes, 1, Attempted))
    /\ Len(git_calls) <= Attempted
    /\ \A i \in 1..Len(git_calls) :
          \E j \in 1..Attempted :
             /\ git_calls[i].url = subtree_remotes[j].repo
             /\ git_calls[i].prefix = subtree_remotes[j].subtree.prefix
    /\ pc = "done" =>
          /\ Attempted = Len(subtrees)
          /\ \A i \in 1..Len(subtrees) : subtree_remotes[i].subtree = subtrees[i]

\* C16 witness: a new subtree with ahead_by = 0 was added, then an imported
\* one that is diverged and ahead was pulled
C16_Witness ==
    /\ pc = "done"
    /\ Len(subtree_remotes) = 2
    /\ subtree_remotes[1].subtree.last_split_ref = NoRef
    /\ subtree_remotes[1].commits_since.ahead_by = 0
    /\ subtree_remotes[2].subtree.last_split_ref # NoRef
    /\ subtree_remotes[2].commits_since.status = "diverged"
    /\ Len(git_calls) = 2
    /\ git_calls[1].op = "add"
    /\ git_calls[2].op = "pull"

====
